---- MODULE Spec2Model ----
(***************************************************************************)
(* Model of riffusion/spectrogram_params.py: the frozen dataclass          *)
(* SpectrogramParams, its derived properties n_fft / win_length /          *)
(* hop_length, and the EXIF conversion to_exif / from_exif.                *)
(*                                                                         *)
(* Python values are modelled as tagged records [t, v, e, s]:              *)
(*   t  the Python type ("NoneType", "bool", "int", "float", "str")        *)
(*   v, e  for a number, its value v * 2^e (binary floats and ints are     *)
(*         exactly of this form; 0.25 is 1 * 2^-2)                         *)
(*   s  for a str, its text                                                *)
(* Doubles produced by arithmetic are computed exactly (53-bit             *)
(* significand, round-half-to-even) on sequences of limbs.                 *)
(***************************************************************************)
EXTENDS Integers, Sequences, FiniteSets, TLC

VARIABLES self, other, exif, decoded, op, ret

vars == <<self, other, exif, decoded, op, ret>>

----------------------------------------------------------------------------
(* Python values *)

PyNone == [t |-> "NoneType", v |-> 0, e |-> 0, s |-> ""]

PyBool(b) == [t |-> "bool", v |-> IF b THEN 1 ELSE 0, e |-> 0, s |-> ""]

PyInt(n) == [t |-> "int", v |-> n, e |-> 0, s |-> ""]

\* the int n * 2^k
PyBigInt(n, k) == [t |-> "int", v |-> n, e |-> k, s |-> ""]

\* the float n * 2^k
PyFloat(n, k) == [t |-> "float", v |-> n, e |-> k, s |-> ""]

PyStr(str) == [t |-> "str", v |-> 0, e |-> 0, s |-> str]

IsNumber(x) == x.t \in {"bool", "int", "float"}

\* truth value testing: None, False, zero of any numeric type and "" are false
Truthy(x) ==
    CASE x.t = "NoneType" -> FALSE
      [] x.t = "str" -> x.s # ""
      [] OTHER -> x.v # 0

RECURSIVE Canon(_, _)
\* the unique <<odd v, e>> (or <<0, 0>>) with the same value v * 2^e
Canon(v, e) ==
    IF v = 0 THEN <<0, 0>>
    ELSE IF v % 2 = 0 THEN Canon(v \div 2, e + 1)
    ELSE <<v, e>>

\* Python ==  on scalars: numbers compare by value across bool/int/float
PyEq(x, y) ==
    CASE IsNumber(x) /\ IsNumber(y) -> Canon(x.v, x.e) = Canon(y.v, y.e)
      [] x.t = "str" /\ y.t = "str" -> x.s = y.s
      [] x.t = "NoneType" /\ y.t = "NoneType" -> TRUE
      [] OTHER -> FALSE

\* x or 0
OrZero(x) == IF Truthy(x) THEN x ELSE PyInt(0)

\* bool(x)
Bool(x) == PyBool(Truthy(x))

Abs(n) == IF n < 0 THEN 0 - n ELSE n

RECURSIVE BitLength(_)
BitLength(n) == IF n = 0 THEN 0 ELSE 1 + BitLength(n \div 2)

\* an int converts to a double only below 2^1024
FloatOverflows(x) == x.v # 0 /\ BitLength(Abs(x.v)) + x.e > 1024

\* float(x) for a number that converts: same value, type float
Float(x) == IF x.t = "float" THEN x ELSE PyFloat(x.v, x.e)

----------------------------------------------------------------------------
(* IEEE-754 binary64 arithmetic.  A magnitude is a sequence of limbs of    *)
(* LimbBits bits, least significant first, so that every intermediate fits *)
(* a 32-bit integer (|ms| < 2^20, |sample_rate| < 2^19, results below      *)
(* 2^31).  A double is <<limbs, e>>: the value limbs * 2^e.                *)

\* significand bits of a double
Precision == 53

LimbBits == 11

RECURSIVE Pow2(_)
Pow2(n) == IF n = 0 THEN 1 ELSE 2 * Pow2(n - 1)

LimbBase == Pow2(LimbBits)

RECURSIVE BigToInt(_)
BigToInt(l) == IF l = <<>> THEN 0 ELSE Head(l) + LimbBase * BigToInt(Tail(l))

Reverse(l) == [i \in 1..Len(l) |-> l[Len(l) + 1 - i]]

\* the number of bits of l (whose top limb is not 0)
BigBitLength(l) ==
    IF l = <<>> THEN 0 ELSE LimbBits * (Len(l) - 1) + BitLength(l[Len(l)])

\* bit i of l, bit 0 the least significant
BigBit(l, i) == (l[(i \div LimbBits) + 1] \div Pow2(i % LimbBits)) % 2

\* limb j of l with the bits of l below bit n removed
LimbAbove(l, j, n) ==
    IF j * LimbBits <= n THEN 0
    ELSE IF (j - 1) * LimbBits < n
         THEN l[j] - (l[j] % Pow2(n - (j - 1) * LimbBits))
         ELSE l[j]

\* l with its low n bits set to 0
BigClearLow(l, n) == [j \in 1..Len(l) |-> LimbAbove(l, j, n)]

\* are the low n bits of l all 0
BigLowZero(l, n) == \A j \in 1..Len(l) : LimbAbove(l, j, n) = l[j]

RECURSIVE BigAdd(_, _, _)
\* l + c * LimbBase^(j-1)
BigAdd(l, j, c) ==
    IF c = 0 THEN l
    ELSE IF j > Len(l) THEN Append(l, c)
    ELSE LET t == l[j] + c
         IN  BigAdd(SubSeq(l, 1, j - 1) \o <<t % LimbBase>> \o SubSeq(l, j + 1, Len(l)),
                    j + 1, t \div LimbBase)

\* l rounded to 53 significant bits, half to even (the bits rounded away
\* stay in place as zeros)
RoundToDouble(l) ==
    LET n == BigBitLength(l) - Precision
    IN  IF n <= 0 THEN l
        ELSE LET half == BigBit(l, n - 1) = 1
                 sticky == ~BigLowZero(l, n - 1)
                 odd == BigBit(l, n) = 1
                 down == BigClearLow(l, n)
             IN  IF half /\ (sticky \/ odd)
                 THEN BigAdd(down, (n \div LimbBits) + 1, Pow2(n % LimbBits))
                 ELSE down

RECURSIVE QuotientLimbs(_, _, _)
\* the next n limbs (most significant first) of the expansion of r / den
\* for 0 <= r < den, followed by the remainder left over
QuotientLimbs(r, den, n) ==
    IF n = 0 THEN <<<<>>, r>>
    ELSE LET limb == (r * LimbBase) \div den
             rest == QuotientLimbs((r * LimbBase) % den, den, n - 1)
         IN  <<<<limb>> \o rest[1], rest[2]>>

RECURSIVE Exponent(_, _)
\* the E with 2^E <= num / den < 2^(E+1), for num, den > 0
Exponent(num, den) ==
    IF num < den THEN Exponent(2 * num, den) - 1
    ELSE IF num >= 2 * den THEN Exponent(num, 2 * den) + 1
    ELSE 0

\* the double nearest to num / den, for ints num, den > 0
DivDouble(num, den) ==
    LET E == Exponent(num, den)
        n == IF E < 0 THEN num * Pow2(0 - E) ELSE num
        d == IF E > 0 THEN den * Pow2(E) ELSE den
        \* n / d is in [1, 2): the leading 1, then limbs enough for 52 more
        \* bits and a rounding bit
        limbs == (Precision + LimbBits - 1) \div LimbBits
        q == QuotientLimbs(n - d, d, limbs)
        \* below the quotient, one more limb stands for the remainder
        sticky == IF q[2] # 0 THEN 1 ELSE 0
    IN  << RoundToDouble(<<sticky>> \o Reverse(q[1]) \o <<1>>),
           E - LimbBits * (limbs + 1) >>

RECURSIVE MulLimbs(_, _, _)
\* l * k + carry, for a non-negative integer k
MulLimbs(l, k, carry) ==
    IF l = <<>>
    THEN (IF carry = 0 THEN <<>>
          ELSE <<carry % LimbBase>> \o MulLimbs(<<>>, k, carry \div LimbBase))
    ELSE LET t == Head(l) * k + carry
         IN  <<t % LimbBase>> \o MulLimbs(Tail(l), k, t \div LimbBase)

\* the product of the double x with the int k > 0, as a double
MulDouble(x, k) == <<RoundToDouble(MulLimbs(x[1], k, 0)), x[2]>>

\* int(x) for a non-negative double x: the fraction is discarded
TruncDouble(x) ==
    IF x[2] >= 0 THEN BigToInt(x[1]) * Pow2(x[2])
    ELSE LET q == (0 - x[2]) \div LimbBits
             r == (0 - x[2]) % LimbBits
         IN  IF q >= Len(x[1]) THEN 0
             ELSE (x[1][q + 1] \div Pow2(r))
                  + Pow2(LimbBits - r) * BigToInt(SubSeq(x[1], q + 2, Len(x[1])))

Sign(n) == IF n < 0 THEN 0 - 1 ELSE IF n > 0 THEN 1 ELSE 0

\* math.floor(ms / 1000.0 * rate): a negative product is rounded down
SamplesInt_floor(ms, rate) ==
    IF ms = 0 \/ rate = 0 THEN 0
    ELSE LET x == MulDouble(DivDouble(Abs(ms), 1000), Abs(rate))
             fraction == x[2] < 0 /\ ~BigLowZero(x[1], 0 - x[2])
         IN  IF Sign(ms) * Sign(rate) > 0 THEN TruncDouble(x)
             ELSE IF fraction THEN 0 - TruncDouble(x) - 1
             ELSE 0 - TruncDouble(x)

\* int(ms / 1000.0 * rate) for ints ms and rate
SamplesInt(ms, rate) ==
    IF ms = 0 \/ rate = 0 THEN 0
    ELSE Sign(ms) * Sign(rate)
            * TruncDouble(MulDouble(DivDouble(Abs(ms), 1000), Abs(rate)))

----------------------------------------------------------------------------
(* SpectrogramParams *)

\* the dataclass fields, in declaration order
FieldOrder ==
    << "stereo", "triple_res_mono", "sample_rate", "step_size_ms",
       "window_duration_ms", "padded_duration_ms", "num_frequencies",
       "min_frequency", "max_frequency", "mel_scale_norm", "mel_scale_type",
       "max_mel_iters", "num_griffin_lim_iters", "power_for_image" >>

Fields == {FieldOrder[i] : i \in 1..Len(FieldOrder)}

\* SpectrogramParams(): every field at its default
Default ==
    [ stereo |-> PyBool(FALSE),
      triple_res_mono |-> PyBool(FALSE),
      sample_rate |-> PyInt(44100),
      step_size_ms |-> PyInt(10),
      window_duration_ms |-> PyInt(100),
      padded_duration_ms |-> PyInt(400),
      num_frequencies |-> PyInt(512),
      min_frequency |-> PyInt(0),
      max_frequency |-> PyInt(10000),
      mel_scale_norm |-> PyNone,
      mel_scale_type |-> PyStr("htk"),
      max_mel_iters |-> PyInt(200),
      num_griffin_lim_iters |-> PyInt(32),
      power_for_image |-> PyFloat(1, 0 - 2) ]

\* SpectrogramParams(**kw): the fields named in kw, the defaults elsewhere
Construct(kw) == [f \in Fields |-> IF f \in DOMAIN kw THEN kw[f] ELSE Default[f]]

\* ExifTags
SAMPLE_RATE == 11000
STEREO == 11005
TRIPLE_RES_MONO == 11007
STEP_SIZE_MS == 11010
WINDOW_DURATION_MS == 11020
PADDED_DURATION_MS == 11030
NUM_FREQUENCIES == 11040
MIN_FREQUENCY == 11050
MAX_FREQUENCY == 11060
POWER_FOR_IMAGE == 11070
MAX_VALUE == 11080

\* an exception raised instead of a value returned
Raise(name) == [t |-> name, v |-> 0, e |-> 0, s |-> ""]

\* Samples with the rate as a divisor, ms / (1000.0 / rate): no value at rate 0
Samples_rate_divides(ms, rate) ==
    IF FloatOverflows(ms) \/ FloatOverflows(rate) THEN Raise("OverflowError")
    ELSE IF rate.v = 0 THEN Raise("ZeroDivisionError")
    ELSE PyInt(SamplesInt(ms.v * Pow2(ms.e), rate.v * Pow2(rate.e)))

\* int(ms / 1000.0 * rate) for int fields ms and rate: converting an int of
\* 2^1024 or more to a double raises OverflowError
Samples(ms, rate) ==
    IF FloatOverflows(ms) \/ FloatOverflows(rate) THEN Raise("OverflowError")
    ELSE PyInt(SamplesInt(ms.v * Pow2(ms.e), rate.v * Pow2(rate.e)))

n_fft(r) == Samples(r.padded_duration_ms, r.sample_rate)

win_length(r) == Samples(r.window_duration_ms, r.sample_rate)

hop_length(r) == Samples(r.step_size_ms, r.sample_rate)

\* to_exif with the two frequency tags exchanged
to_exif_swapped(r) ==
    (SAMPLE_RATE :> r.sample_rate)
    @@ (STEREO :> r.stereo)
    @@ (TRIPLE_RES_MONO :> r.triple_res_mono)
    @@ (STEP_SIZE_MS :> r.step_size_ms)
    @@ (WINDOW_DURATION_MS :> r.window_duration_ms)
    @@ (PADDED_DURATION_MS :> r.padded_duration_ms)
    @@ (NUM_FREQUENCIES :> r.num_frequencies)
    @@ (MIN_FREQUENCY :> r.max_frequency)
    @@ (MAX_FREQUENCY :> r.min_frequency)
    @@ (POWER_FOR_IMAGE :> Float(r.power_for_image))

\* to_exif without the float() around power_for_image
to_exif_unwidened(r) ==
    (SAMPLE_RATE :> r.sample_rate)
    @@ (STEREO :> r.stereo)
    @@ (TRIPLE_RES_MONO :> r.triple_res_mono)
    @@ (STEP_SIZE_MS :> r.step_size_ms)
    @@ (WINDOW_DURATION_MS :> r.window_duration_ms)
    @@ (PADDED_DURATION_MS :> r.padded_duration_ms)
    @@ (NUM_FREQUENCIES :> r.num_frequencies)
    @@ (MIN_FREQUENCY :> r.min_frequency)
    @@ (MAX_FREQUENCY :> r.max_frequency)
    @@ (POWER_FOR_IMAGE :> r.power_for_image)

\* the dict returned by to_exif
to_exif(r) ==
    (SAMPLE_RATE :> r.sample_rate)
    @@ (STEREO :> r.stereo)
    @@ (TRIPLE_RES_MONO :> r.triple_res_mono)
    @@ (STEP_SIZE_MS :> r.step_size_ms)
    @@ (WINDOW_DURATION_MS :> r.window_duration_ms)
    @@ (PADDED_DURATION_MS :> r.padded_duration_ms)
    @@ (NUM_FREQUENCIES :> r.num_frequencies)
    @@ (MIN_FREQUENCY :> r.min_frequency)
    @@ (MAX_FREQUENCY :> r.max_frequency)
    @@ (POWER_FOR_IMAGE :> Float(r.power_for_image))

\* exif.get(key)
Get(m, key) == IF key \in DOMAIN m THEN m[key] ELSE PyNone

\* the tag of each encoded field
FieldTag ==
    [ sample_rate |-> SAMPLE_RATE, stereo |-> STEREO,
      triple_res_mono |-> TRIPLE_RES_MONO, step_size_ms |-> STEP_SIZE_MS,
      window_duration_ms |-> WINDOW_DURATION_MS,
      padded_duration_ms |-> PADDED_DURATION_MS,
      num_frequencies |-> NUM_FREQUENCIES, min_frequency |-> MIN_FREQUENCY,
      max_frequency |-> MAX_FREQUENCY, power_for_image |-> POWER_FOR_IMAGE ]

\* from_exif without the "or 0": a missing key gives None
from_exif_unchecked(m) ==
    Construct([f \in DOMAIN FieldTag |->
                  IF f \in {"stereo", "triple_res_mono"} THEN Bool(Get(m, FieldTag[f]))
                  ELSE Get(m, FieldTag[f])])

\* from_exif that falls back to the construction default, not to 0
from_exif_class_default(m) ==
    Construct([f \in DOMAIN FieldTag |->
                  IF f \in {"stereo", "triple_res_mono"} THEN Bool(Get(m, FieldTag[f]))
                  ELSE IF Truthy(Get(m, FieldTag[f])) THEN Get(m, FieldTag[f])
                  ELSE Default[f]])

\* from_exif that gives every other int field the "or 0" treatment as well
from_exif_zero_everywhere(m) ==
    Construct([f \in DOMAIN FieldTag \cup {"max_mel_iters", "num_griffin_lim_iters"} |->
                  IF f \in {"stereo", "triple_res_mono"} THEN Bool(Get(m, FieldTag[f]))
                  ELSE IF f \in DOMAIN FieldTag THEN OrZero(Get(m, FieldTag[f]))
                  ELSE OrZero(PyNone)])

\* from_exif that reads power_for_image under MAX_VALUE
from_exif_reads_max_value(m) ==
    Construct([f \in DOMAIN FieldTag |->
                  IF f \in {"stereo", "triple_res_mono"} THEN Bool(Get(m, FieldTag[f]))
                  ELSE IF f = "power_for_image" THEN OrZero(Get(m, MAX_VALUE))
                  ELSE OrZero(Get(m, FieldTag[f]))])

\* the record returned by from_exif
from_exif(m) ==
    Construct(
        [ sample_rate |-> OrZero(Get(m, SAMPLE_RATE)),
          stereo |-> Bool(Get(m, STEREO)),
          triple_res_mono |-> Bool(Get(m, TRIPLE_RES_MONO)),
          step_size_ms |-> OrZero(Get(m, STEP_SIZE_MS)),
          window_duration_ms |-> OrZero(Get(m, WINDOW_DURATION_MS)),
          padded_duration_ms |-> OrZero(Get(m, PADDED_DURATION_MS)),
          num_frequencies |-> OrZero(Get(m, NUM_FREQUENCIES)),
          min_frequency |-> OrZero(Get(m, MIN_FREQUENCY)),
          max_frequency |-> OrZero(Get(m, MAX_FREQUENCY)),
          power_for_image |-> OrZero(Get(m, POWER_FOR_IMAGE)) ])

\* the tuple of fields the generated __eq__ compares
AsTuple(r) == [i \in 1..Len(FieldOrder) |-> r[FieldOrder[i]]]

\* tuple == tuple
TupleEq(a, b) == Len(a) = Len(b) /\ \A i \in 1..Len(a) : PyEq(a[i], b[i])

\* equality of what is encoded only
Eq_encoded(a, b) ==
    \A f \in DOMAIN FieldTag : PyEq(a[f], b[f])

\* a == b for two SpectrogramParams
Eq(a, b) == TupleEq(AsTuple(a), AsTuple(b))

----------------------------------------------------------------------------
(* Inputs *)

\* how many fields a constructed record may set away from their defaults
MaxChanged == 3

\* the same, for each of the two records that are compared
MaxDiffer == 1

\* step sizes run over -MaxStepMs..MaxStepMs
MaxStepMs == 10

\* how many keys a mapping read from an image may hold
MaxKeys == 2

\* an int too large for a double: 2^1024
Huge == PyBigInt(1, 1024)

\* a second value for every field: zero or false where the default is not,
\* and the other way round
Alt ==
    [ stereo |-> PyBool(TRUE),
      triple_res_mono |-> PyBool(TRUE),
      sample_rate |-> PyInt(0),
      step_size_ms |-> PyInt(0),
      window_duration_ms |-> PyInt(0),
      padded_duration_ms |-> PyInt(0),
      num_frequencies |-> PyInt(0),
      min_frequency |-> PyInt(20),
      max_frequency |-> PyInt(0),
      mel_scale_norm |-> PyStr("slaney"),
      mel_scale_type |-> PyStr("slaney"),
      max_mel_iters |-> PyInt(100),
      num_griffin_lim_iters |-> PyInt(0),
      power_for_image |-> PyFloat(0, 0) ]

\* the same, with an int where a float is declared
AltInt == [Alt EXCEPT !.power_for_image = PyInt(1)]

\* the records that set at most n fields, each to its second value
Variants(n) ==
    { Construct([f \in S |-> A[f]]) :
        S \in {T \in SUBSET Fields : Cardinality(T) <= n}, A \in {Alt, AltInt} }

\* r itself, and r with one field given its other value
Neighbours(r) ==
    {r} \cup { [r EXCEPT ![f] = IF r[f] = Default[f] THEN Alt[f] ELSE Default[f]] :
                 f \in Fields }

SampleRates == {PyInt(0 - 44100), PyInt(0), PyInt(1), PyInt(44100), PyInt(48000), Huge}

StepSizes == {PyInt(n) : n \in (0 - MaxStepMs)..MaxStepMs}

WindowDurations == {PyInt(0 - 100), PyInt(0), PyInt(100)}

PaddedDurations == {PyInt(350), PyInt(400), Huge}

\* the records whose derived values are of interest
TimedRecords ==
    { Construct([sample_rate |-> sr, step_size_ms |-> st,
                 window_duration_ms |-> wd, padded_duration_ms |-> pd]) :
        sr \in SampleRates, st \in StepSizes,
        wd \in WindowDurations, pd \in PaddedDurations }

EncodedKeys ==
    { SAMPLE_RATE, STEREO, TRIPLE_RES_MONO, STEP_SIZE_MS, WINDOW_DURATION_MS,
      PADDED_DURATION_MS, NUM_FREQUENCIES, MIN_FREQUENCY, MAX_FREQUENCY,
      POWER_FOR_IMAGE }

\* the keys of a mapping: the ten, the reserved one and a key that is no
\* ExifTags value (the standard EXIF tag Make)
MappingKeys == EncodedKeys \cup {MAX_VALUE, 271}

\* what a key may hold: two false values and a true one
MappingValues == {PyNone, PyFloat(0, 0), PyInt(44100)}

\* the mappings of at most MaxKeys keys
Mappings ==
    UNION { [K -> MappingValues] :
              K \in {T \in SUBSET MappingKeys : Cardinality(T) <= MaxKeys} }

EmptyMapping == CHOOSE m \in [{} -> MappingValues] : TRUE

----------------------------------------------------------------------------
(* State: self and other are constructed records, exif the mapping in      *)
(* hand (read from an image, or returned by to_exif), decoded the record   *)
(* returned by the latest from_exif (none yet: the empty sequence), op the *)
(* latest operation and ret what it returned or raised.                    *)

Returned(type) == [t |-> type, v |-> 0, e |-> 0, s |-> ""]

InitWith(records, others, mappings) ==
    /\ self \in records
    /\ other \in others
    /\ exif \in mappings
    /\ decoded = <<>>
    /\ op = "__init__"
    /\ ret = PyNone

\* records built with a few keyword arguments
Init == InitWith(Variants(MaxChanged), {Default}, {EmptyMapping})

\* records with many timings
InitTimed == InitWith(TimedRecords, {Default}, {EmptyMapping})

\* mappings read from an image
InitRead == InitWith({Default}, {Default}, Mappings)

\* pairs of records that differ in at most one field
InitPair ==
    /\ InitWith(Variants(MaxDiffer), Variants(MaxDiffer + 1), {EmptyMapping})
    /\ other \in Neighbours(self)

NFft ==
    /\ op' = "n_fft"
    /\ ret' = n_fft(self)
    /\ UNCHANGED <<self, other, exif, decoded>>

WinLength ==
    /\ op' = "win_length"
    /\ ret' = win_length(self)
    /\ UNCHANGED <<self, other, exif, decoded>>

HopLength ==
    /\ op' = "hop_length"
    /\ ret' = hop_length(self)
    /\ UNCHANGED <<self, other, exif, decoded>>

ToExif ==
    /\ op' = "to_exif"
    /\ IF FloatOverflows(self.power_for_image)
       THEN ret' = Raise("OverflowError") /\ exif' = exif
       ELSE ret' = Returned("dict") /\ exif' = to_exif(self)
    /\ UNCHANGED <<self, other, decoded>>

FromExif ==
    /\ op' = "from_exif"
    /\ decoded' = <<from_exif(exif)>>
    /\ ret' = Returned("SpectrogramParams")
    /\ UNCHANGED <<self, other, exif>>

EqOp ==
    /\ op' = "__eq__"
    /\ ret' = PyBool(Eq(self, other))
    /\ UNCHANGED <<self, other, exif, decoded>>

\* self.f = v on a dataclass that is not frozen
SetAttr_unfrozen ==
    /\ \E f \in {"sample_rate", "mel_scale_type"} : \E v \in {Alt[f]} :
          /\ op' = "__setattr__"
          /\ ret' = PyNone
          /\ self' = [self EXCEPT ![f] = v]
    /\ UNCHANGED <<other, exif, decoded>>

\* self.f = v: the dataclass is frozen
SetAttr ==
    /\ \E f \in {"sample_rate", "mel_scale_type"} : \E v \in {Alt[f]} :
          /\ op' = "__setattr__"
          /\ ret' = Raise("FrozenInstanceError")
          /\ self' = self
    /\ UNCHANGED <<other, exif, decoded>>

Next == NFft \/ WinLength \/ HopLength \/ ToExif \/ FromExif \/ EqOp \/ SetAttr

Spec == Init /\ [][Next]_vars

SpecTimed == InitTimed /\ [][Next]_vars

SpecRead == InitRead /\ [][Next]_vars

SpecPair == InitPair /\ [][Next]_vars

----------------------------------------------------------------------------
(* Properties *)

\* the field each EXIF tag stands for, as the tags are documented
TagField ==
    (11000 :> "sample_rate") @@ (11005 :> "stereo") @@ (11007 :> "triple_res_mono")
    @@ (11010 :> "step_size_ms") @@ (11020 :> "window_duration_ms")
    @@ (11030 :> "padded_duration_ms") @@ (11040 :> "num_frequencies")
    @@ (11050 :> "min_frequency") @@ (11060 :> "max_frequency")
    @@ (11070 :> "power_for_image")

TenCodes == DOMAIN TagField

EncodedFields == {TagField[k] : k \in TenCodes}

BooleanFields == {"stereo", "triple_res_mono"}

AllTruthy(r) == \A f \in EncodedFields : Truthy(r[f])

\* from_exif has just decoded what to_exif(self) returned
RoundTripDone == op = "from_exif" /\ exif = to_exif(self)

IsAccessor == op \in {"n_fft", "win_length", "hop_length"}

\* the duration field the latest accessor read
AccessedMs ==
    CASE op = "n_fft" -> self.padded_duration_ms
      [] op = "win_length" -> self.window_duration_ms
      [] op = "hop_length" -> self.step_size_ms

\* ms * rate / 1000 with the fraction discarded (toward zero)
ExactSamples(ms, rate) == Sign(ms * rate) * (Abs(ms * rate) \div 1000)

IsException(x) ==
    x.t \notin {"NoneType", "bool", "int", "float", "str", "dict", "SpectrogramParams"}

\* C1: when all ten encoded fields of a record are truthy, decoding what
\* to_exif returned gives back the same value in each of the ten fields.
C1_RoundTripTruthy ==
    (RoundTripDone /\ AllTruthy(self))
        => \A f \in EncodedFields : PyEq(decoded[1][f], self[f])

C1_Witness == RoundTripDone /\ AllTruthy(self) /\ self.min_frequency = PyInt(20)

\* C2: to_exif returns a dict whose keys are exactly the ten codes (never
\* 11080 or a key for a mel-scale or Griffin-Lim field), each holding the
\* value of its field, power_for_image as a float; on the default record it
\* is {11000: 44100, 11005: False, 11007: False, 11010: 10, 11020: 100,
\* 11030: 400, 11040: 512, 11050: 0, 11060: 10000, 11070: 0.25}.
C2_ToExifContents ==
    (op = "to_exif" /\ ret.t = "dict")
        => /\ DOMAIN exif = TenCodes
           /\ \A k \in TenCodes \ {11070} : exif[k] = self[TagField[k]]
           /\ PyEq(exif[11070], self.power_for_image)
           /\ exif[11070].t = "float"
           /\ self = Default =>
                exif = (11000 :> PyInt(44100)) @@ (11005 :> PyBool(FALSE))
                       @@ (11007 :> PyBool(FALSE)) @@ (11010 :> PyInt(10))
                       @@ (11020 :> PyInt(100)) @@ (11030 :> PyInt(400))
                       @@ (11040 :> PyInt(512)) @@ (11050 :> PyInt(0))
                       @@ (11060 :> PyInt(10000)) @@ (11070 :> PyFloat(1, 0 - 2))

C2_Witness ==
    /\ op = "to_exif"
    /\ ret.t = "dict"
    /\ self.power_for_image = PyInt(1)
    /\ self.max_mel_iters # Default.max_mel_iters

\* C3: for each of the ten codes on its own, from_exif gives a numeric
\* field the literal int 0 (not the construction default) and a boolean
\* field False when the code is absent or holds a false value, and the
\* mapped value (as a bool, for the two boolean fields) otherwise; the empty
\* mapping gives 0 / False in all ten fields, and {11000: 44100} gives
\* sample_rate 44100, the three durations 0 and so n_fft 0.
C3_FromExifSubstitutes ==
    op = "from_exif"
        => /\ \A k \in TenCodes :
                LET present == k \in DOMAIN exif /\ Truthy(exif[k])
                    got == decoded[1][TagField[k]]
                IN  IF TagField[k] \in BooleanFields THEN got = PyBool(present)
                    ELSE IF present THEN got = exif[k]
                    ELSE got = PyInt(0)
           /\ DOMAIN exif = {} =>
                \A f \in EncodedFields :
                    decoded[1][f] = IF f \in BooleanFields THEN PyBool(FALSE) ELSE PyInt(0)
           /\ exif = (11000 :> PyInt(44100)) =>
                /\ decoded[1].sample_rate = PyInt(44100)
                /\ decoded[1].step_size_ms = PyInt(0)
                /\ decoded[1].window_duration_ms = PyInt(0)
                /\ decoded[1].padded_duration_ms = PyInt(0)
                /\ n_fft(decoded[1]) = PyInt(0)

C3_Witness ==
    /\ op = "from_exif"
    /\ DOMAIN exif = {11000, 11005}
    /\ exif[11000] = PyFloat(0, 0)
    /\ exif[11005] = PyInt(44100)
    /\ decoded[1].sample_rate = PyInt(0)
    /\ decoded[1].stereo = PyBool(TRUE)

\* C4: whatever the mapping, the record from_exif returns has
\* mel_scale_norm None, mel_scale_type "htk", max_mel_iters 200 and
\* num_griffin_lim_iters 32, so a round trip replaces the record's own
\* values of these four fields by the defaults.
C4_FromExifNeverEncoded ==
    op = "from_exif"
        => /\ decoded[1].mel_scale_norm = PyNone
           /\ decoded[1].mel_scale_type = PyStr("htk")
           /\ decoded[1].max_mel_iters = PyInt(200)
           /\ decoded[1].num_griffin_lim_iters = PyInt(32)

C4_Witness ==
    /\ RoundTripDone
    /\ self.max_mel_iters = PyInt(100)
    /\ self.mel_scale_norm = PyStr("slaney")
    /\ decoded[1].max_mel_iters = PyInt(200)

\* C5 as stated: n_fft, win_length and hop_length are the exact product
\* ms * sample_rate / 1000 with the fraction discarded toward zero.
C5_DerivedExact ==
    (IsAccessor /\ ret.t = "int")
        => ret.v = ExactSamples(AccessedMs.v, self.sample_rate.v)

\* C5: n_fft, win_length and hop_length are int(ms / 1000.0 * sample_rate)
\* computed in doubles and cut toward zero.  That is the exact product
\* ms * sample_rate / 1000 with the fraction discarded, except that when
\* 1000 divides ms * sample_rate the double product may lie just below the
\* exact integer, and the result is then one nearer to zero.  The defaults
\* give n_fft 17640, win_length 4410 and hop_length 441.
C5_DerivedTruncated ==
    (IsAccessor /\ ret.t = "int")
        => LET product == AccessedMs.v * self.sample_rate.v
               exact == ExactSamples(AccessedMs.v, self.sample_rate.v)
           IN  /\ product % 1000 # 0 => ret.v = exact
               /\ product % 1000 = 0 => ret.v \in {exact, exact - Sign(exact)}
               /\ (self.sample_rate = PyInt(44100) /\ op = "n_fft"
                     /\ self.padded_duration_ms = PyInt(400)) => ret = PyInt(17640)
               /\ (self.sample_rate = PyInt(44100) /\ op = "win_length"
                     /\ self.window_duration_ms = PyInt(100)) => ret = PyInt(4410)
               /\ (self.sample_rate = PyInt(44100) /\ op = "hop_length"
                     /\ self.step_size_ms = PyInt(10)) => ret = PyInt(441)

\* 350 * 44100 / 1000 is 15435, the double product lies just below it; and
\* -7 * 44100 / 1000 = -308.7 is cut toward zero
C5_Witness ==
    /\ op = "n_fft"
    /\ self.padded_duration_ms = PyInt(350)
    /\ self.sample_rate = PyInt(44100)
    /\ ret = PyInt(15434)
    /\ self.step_size_ms = PyInt(0 - 7)
    /\ hop_length(self) = PyInt(0 - 308)

\* C6: no operation changes a record that exists, and from_exif does not
\* change the mapping it is given.
C6_Immutable ==
    [][/\ self' = self
       /\ other' = other
       /\ op' = "from_exif" => exif' = exif]_vars

C6_Witness ==
    /\ op = "__setattr__"
    /\ decoded # <<>>
    /\ decoded[1] # self
    /\ exif = to_exif(self)

\* C7: two records compare equal exactly when all fourteen stored fields
\* hold the same values, whatever their derived values are.
C7_EqualityStructural == op = "__eq__" => ret = PyBool(self = other)

\* unequal records that agree on everything encoded and derived
C7_Witness ==
    /\ op = "__eq__"
    /\ ret = PyBool(FALSE)
    /\ to_exif(self) = to_exif(other)
    /\ n_fft(self) = n_fft(other)
    /\ self.num_griffin_lim_iters # other.num_griffin_lim_iters

SmallInts(r) ==
    \A f \in {"sample_rate", "step_size_ms", "window_duration_ms", "padded_duration_ms"} :
        r[f].t = "int" /\ r[f].e = 0

C9_RoundTripAll ==
    RoundTripDone
        => /\ \A f \in EncodedFields : PyEq(decoded[1][f], self[f])
           /\ to_exif(decoded[1]) = exif

C9_Witness ==
    /\ RoundTripDone
    /\ self.sample_rate = PyInt(0)
    /\ self.stereo = PyBool(FALSE)
    /\ self.power_for_image = PyFloat(0, 0)

\* the mappings that agree with m on the ten codes
SameOnTenCodes(m) ==
    { [k \in (DOMAIN m \cap TenCodes) \cup DOMAIN x |->
          IF k \in DOMAIN x THEN x[k] ELSE m[k]] :
        x \in UNION {[K -> MappingValues] : K \in SUBSET (MappingKeys \ TenCodes)} }

\* C10: from_exif returns the same record for any two mappings that agree
\* on the ten codes, whatever they hold under 11080 or another key.
C10_FromExifReadsTenCodes ==
    op = "from_exif" => \A m \in SameOnTenCodes(exif) : from_exif(m) = decoded[1]

C10_Witness ==
    /\ op = "from_exif"
    /\ 11080 \in DOMAIN exif
    /\ exif[11080] = PyInt(44100)
    /\ 11070 \notin DOMAIN exif

====
